---- MODULE Spec2Model ----
(***************************************************************************)
(* Redmi Pro Studio: the render pipeline (services/imageProcessor.ts) and  *)
(* the editor component that drives it (App.tsx).                          *)
(*                                                                         *)
(* Numbers.  The code computes in IEEE doubles.  A finite double x is      *)
(* modelled by the integer round(x * Scale) (fixed point, five decimals);  *)
(* every product with a non-integer factor is one MulDiv, rounded to the   *)
(* nearest unit.  NaN, +Infinity and -Infinity are the three sentinels     *)
(* NaN, PInf and NInf.  A settings field is an integer, or NaN when the    *)
(* field is missing, undefined or not a number.                            *)
(***************************************************************************)
EXTENDS Integers, Sequences, FiniteSets, TLC

\* ------------------------------------------------------------- numbers

Scale == 100000
NaN   == -2000000001
PInf  == 2000000001
NInf  == -2000000002

IsNum(x) == x # NaN /\ x # PInf /\ x # NInf

Abs(x) == IF x < 0 THEN -x ELSE x
Max2(a, b) == IF a >= b THEN a ELSE b
Min2(a, b) == IF a <= b THEN a ELSE b

\* round(a * n / d) for d > 0, n >= 0, without leaving 32 bits:
\* a = q*d + m with 0 <= m < d, so a*n/d = q*n + m*n/d.
MulDivPos(a, n, d) == (a \div d) * n + (((a % d) * n + (d \div 2)) \div d)

\* round(a * n / d) for d > 0 and any sign of n
MulDiv(a, n, d) == IF n >= 0 THEN MulDivPos(a, n, d) ELSE -MulDivPos(a, -n, d)

\* a * b / Scale for two fixed-point numbers, 0 <= b <= 2 * Scale
MulFx(a, b) == MulDiv(a, b \div 1000, Scale \div 1000) + MulDiv(a, b % 1000, Scale)

Fx(n) == n * Scale

\* ------------------------------------------------------------ settings

Fields == {"exposure", "contrast", "shadows", "highlights", "whites", "temp",
           "tint", "saturation", "vibrance", "sharpness", "clarity", "vignette"}

INITIAL_SETTINGS ==
  [exposure |-> 0, contrast |-> 0, shadows |-> 0, highlights |-> 0,
   whites |-> 0, temp |-> 0, tint |-> 0, saturation |-> 0, vibrance |-> 0,
   sharpness |-> 0, clarity |-> 0, vignette |-> 0]

\* the slider's min of a field (App.tsx: min={-100}, sharpness min={0})
FieldMin(f) == IF f = "sharpness" THEN 0 ELSE -100
\* the slider's max of a field
FieldMax(f) == 100

\* --------------------------------------------------- tone and colour pass

\* 2^(f/100) for the fractional part f of the exposure, as a ratio <<n, d>>
\* (continued-fraction convergents, error below 2e-8)
Pow2Frac(f) ==
  CASE f = 0  -> <<1, 1>>
    [] f = 5  -> <<5842, 5643>>
    [] f = 10 -> <<8213, 7663>>
    [] f = 20 -> <<8119, 7068>>
    [] f = 25 -> <<10754, 9043>>
    [] f = 50 -> <<8119, 5741>>
    [] f = 75 -> <<9043, 5377>>

\* the exposures whose multiplier the table gives
ExposureOk(e) == e = NaN \/ (e % 100) \in {0, 5, 10, 20, 25, 50, 75}

RECURSIVE Pow2(_)
Pow2(k) == IF k = 0 THEN 1 ELSE 2 * Pow2(k - 1)

\* mutant of ExposureMult: the ratio upside down, Math.pow(2, -exposure / 100)
ExposureMultInverse(e) ==
  LET k == e \div 100
      fr == Pow2Frac(e % 100)
  IN  IF k >= 0 THEN <<fr[2], fr[1] * Pow2(k)>> ELSE <<fr[2] * Pow2(-k), fr[1]>>

\* exposureMult = Math.pow(2, settings.exposure / 100), as a ratio <<n, d>>
ExposureMult(e) ==
  LET k == e \div 100
      fr == Pow2Frac(e % 100)
  IN  IF k >= 0 THEN <<fr[1] * Pow2(k), fr[2]>> ELSE <<fr[1], fr[2] * Pow2(-k)>>

\* mutant of TimesExposure: the multiplier added, x += exposureMult
TimesExposureAdded(x, e) ==
  IF e = NaN THEN NaN ELSE x + MulDiv(Scale, ExposureMult(e)[1], ExposureMult(e)[2])

\* x *= exposureMult
TimesExposure(x, e) ==
  IF e = NaN THEN NaN ELSE MulDiv(x, ExposureMult(e)[1], ExposureMult(e)[2])

\* x + y in doubles, for finite or NaN operands
Plus(x, y) == IF x = NaN \/ y = NaN THEN NaN ELSE x + y

\* rTemp: settings.temp > 0 ? settings.temp * 0.5 : 0
RTemp(s) == IF s.temp # NaN /\ s.temp > 0 THEN s.temp * (Scale \div 2) ELSE 0
\* bTemp: settings.temp < 0 ? -settings.temp * 0.5 : 0
BTemp(s) == IF s.temp # NaN /\ s.temp < 0 THEN (-s.temp) * (Scale \div 2) ELSE 0
\* gTint: settings.tint > 0 ? settings.tint * 0.3 : 0
GTint(s) == IF s.tint # NaN /\ s.tint > 0 THEN s.tint * ((3 * Scale) \div 10) ELSE 0
\* mTint: settings.tint < 0 ? -settings.tint * 0.3 : 0
MTint(s) == IF s.tint # NaN /\ s.tint < 0 THEN (-s.tint) * ((3 * Scale) \div 10) ELSE 0

\* lum = 0.299 * r + 0.587 * g + 0.114 * b
Lum(r, g, b) ==
  IF r = NaN \/ g = NaN \/ b = NaN THEN NaN
  ELSE MulDiv(r, 299, 1000) + MulDiv(g, 587, 1000) + MulDiv(b, 114, 1000)

\* lift = (1 - lum / 255) * (settings.shadows / 100) * 80
ShadowsLift(lum, s) ==
  IF lum = NaN \/ s.shadows = NaN THEN NaN
  ELSE MulDiv(Fx(255) - lum, s.shadows * 80, 255 * 100)

\* drop = (lum / 255) * (settings.highlights / 100) * 80
HighlightsDrop(lum, s) ==
  IF lum = NaN \/ s.highlights = NaN THEN NaN
  ELSE MulDiv(lum, s.highlights * 80, 255 * 100)

\* lift = (settings.whites / 100) * 50
WhitesLift(s) == IF s.whites = NaN THEN NaN ELSE s.whites * (Scale \div 2)

\* lum > 200 (false for NaN)
WhitesFires(lum, s) == s.whites # 0 /\ lum # NaN /\ lum > Fx(200)

\* mutant of ContrastApply: the pivot at 127, contrastFactor * (x - 127) + 127
ContrastApplyPivot127(x, c) ==
  IF x = NaN \/ c = NaN THEN NaN
  ELSE IF 259 - c <= 0 THEN NaN
  ELSE MulDiv(MulDiv(x - Fx(127), 259, 255), c + 255, 259 - c) + Fx(127)

\* contrastFactor * (x - 128) + 128 with
\* contrastFactor = (259 * (contrast + 255)) / (255 * (259 - contrast));
\* a zero denominator makes the factor an infinity (NaN for 0/0), and an
\* infinity times 0 is NaN
ContrastApply(x, c) ==
  LET num == c + 255
      den == 259 - c
      y   == x - Fx(128)
      \* sign of 259 * (c + 255) / (255 * (259 - c)) * (x - 128)
      sg(a) == IF a > 0 THEN 1 ELSE IF a < 0 THEN -1 ELSE 0
  IN  IF x = NaN \/ c = NaN THEN NaN
      ELSE IF den = 0
        THEN (IF sg(num) * sg(y) > 0 THEN PInf
              ELSE IF sg(num) * sg(y) < 0 THEN NInf ELSE NaN)
      ELSE IF den > 0
        THEN MulDiv(MulDiv(y, 259, 255), num, den) + Fx(128)
      ELSE MulDiv(MulDiv(y, 259, 255), -num, -den) + Fx(128)

\* mutant of Clamp255: the upper bound off by one
Clamp254(x) ==
  IF x = NaN THEN NaN
  ELSE IF x = PInf THEN Fx(254)
  ELSE IF x = NInf THEN 0
  ELSE Max2(0, Min2(Fx(254), x))

\* Math.max(0, Math.min(255, x))
Clamp255(x) ==
  IF x = NaN THEN NaN
  ELSE IF x = PInf THEN Fx(255)
  ELSE IF x = NInf THEN 0
  ELSE Max2(0, Min2(Fx(255), x))

\* mutant of Gray: the green weight mistyped, 0.5780 for 0.5870
GrayMistyped(r, g, b) ==
  IF r = NaN \/ g = NaN \/ b = NaN THEN NaN
  ELSE MulDiv(r, 2989, 10000) + MulDiv(g, 5780, 10000) + MulDiv(b, 1140, 10000)

\* gray = 0.2989 * r + 0.5870 * g + 0.1140 * b
Gray(r, g, b) ==
  IF r = NaN \/ g = NaN \/ b = NaN THEN NaN
  ELSE MulDiv(r, 2989, 10000) + MulDiv(g, 5870, 10000) + MulDiv(b, 1140, 10000)

\* mutant of VibranceAmt: the final * 0.5 left out, |maxC - avgC| * 2 / 255
VibranceAmtNoHalf(r, g, b) ==
  LET maxC == Max2(r, Max2(g, b))
      avgC == MulDiv(r + g + b, 1, 3)
  IN  MulDiv(Abs(maxC - avgC), 2, 255)

\* amt = ((Math.abs(maxC - avgC) * 2) / 255) * 0.5, maxC and avgC of r, g, b
VibranceAmt(r, g, b) ==
  LET maxC == Max2(r, Max2(g, b))
      avgC == MulDiv(r + g + b, 1, 3)
  IN  MulDiv(Abs(maxC - avgC), 1, 255)

\* x + (x - gray) * (vibMult - 1) * (1 - amt) for vibrance > 0,
\* x + (x - gray) * (vibMult - 1) otherwise (also for a NaN vibrance)
VibranceApply(x, gray, amt, v) ==
  IF x = NaN \/ gray = NaN \/ v = NaN THEN NaN
  ELSE IF v > 0 THEN x + MulFx(MulDiv(x - gray, v, 100), Scale - amt)
  ELSE x + MulDiv(x - gray, v, 100)

\* gray + (x - gray) * satMult, satMult = 1 + saturation / 100
SaturationApply(x, gray, sat) ==
  IF x = NaN \/ gray = NaN \/ sat = NaN THEN NaN
  ELSE gray + MulDiv(x - gray, 100 + sat, 100)

\* The steps of the loop body, each on c = <<r, g, b>>.

\* 1. exposure (lines 40-44)
ExposureStep(c, s) ==
  IF s.exposure # 0
    THEN <<TimesExposure(c[1], s.exposure), TimesExposure(c[2], s.exposure),
           TimesExposure(c[3], s.exposure)>>
  ELSE c

\* 2. white balance: temperature (lines 47-50)
TempStep(c, s) ==
  IF s.temp # 0 THEN <<Plus(c[1], RTemp(s)), c[2], Plus(c[3], BTemp(s))>> ELSE c

\* 2. white balance: tint (lines 51-55)
TintStep(c, s) ==
  IF s.tint # 0
    THEN <<Plus(c[1], MTint(s)), Plus(c[2], GTint(s)), Plus(c[3], MTint(s))>>
  ELSE c

\* x += d on the three channels
Lifted(c, d) == <<Plus(c[1], d), Plus(c[2], d), Plus(c[3], d)>>

\* 3. shadows, highlights and whites, all from the one lum (lines 58-77)
ShadowsStep(c, lum, s) == IF s.shadows # 0 THEN Lifted(c, ShadowsLift(lum, s)) ELSE c
HighlightsStep(c, lum, s) ==
  IF s.highlights # 0 THEN Lifted(c, HighlightsDrop(lum, s)) ELSE c
WhitesStep(c, lum, s) == IF WhitesFires(lum, s) THEN Lifted(c, WhitesLift(s)) ELSE c

\* mutant of ToneCurveStep: lum computed again after each lift
ToneCurveStepFreshLum(c, s) ==
  WhitesStep(
    HighlightsStep(ShadowsStep(c, Lum(c[1], c[2], c[3]), s),
                   Lum(ShadowsStep(c, Lum(c[1], c[2], c[3]), s)[1],
                       ShadowsStep(c, Lum(c[1], c[2], c[3]), s)[2],
                       ShadowsStep(c, Lum(c[1], c[2], c[3]), s)[3]), s),
    Lum(ShadowsStep(c, Lum(c[1], c[2], c[3]), s)[1],
        ShadowsStep(c, Lum(c[1], c[2], c[3]), s)[2],
        ShadowsStep(c, Lum(c[1], c[2], c[3]), s)[3]), s)

ToneCurveStep(c, s) ==
  WhitesStep(HighlightsStep(ShadowsStep(c, Lum(c[1], c[2], c[3]), s),
                            Lum(c[1], c[2], c[3]), s),
             Lum(c[1], c[2], c[3]), s)

\* contrast (lines 79-83)
ContrastStep(c, s) ==
  IF s.contrast # 0
    THEN <<ContrastApply(c[1], s.contrast), ContrastApply(c[2], s.contrast),
           ContrastApply(c[3], s.contrast)>>
  ELSE c

\* the clamp (lines 85-87)
ClampStep(c) == <<Clamp255(c[1]), Clamp255(c[2]), Clamp255(c[3])>>

\* 4. vibrance (lines 93-106), gray computed by the caller
VibranceStep(c, gray, s) ==
  IF s.vibrance # 0
    THEN LET amt == IF gray = NaN THEN NaN ELSE VibranceAmt(c[1], c[2], c[3])
         IN  <<VibranceApply(c[1], gray, amt, s.vibrance),
               VibranceApply(c[2], gray, amt, s.vibrance),
               VibranceApply(c[3], gray, amt, s.vibrance)>>
  ELSE c

\* 4. saturation (lines 108-112), with the same gray
SaturationStep(c, gray, s) ==
  IF s.saturation # 0
    THEN <<SaturationApply(c[1], gray, s.saturation),
           SaturationApply(c[2], gray, s.saturation),
           SaturationApply(c[3], gray, s.saturation)>>
  ELSE c

\* mutant of ColourStep: saturation applied to the clamped colour, the
\* vibrance result dropped
ColourStepSaturationOnClamped(c, s) ==
  IF s.saturation # 0 \/ s.vibrance # 0
    THEN IF s.saturation # 0 THEN SaturationStep(c, Gray(c[1], c[2], c[3]), s)
         ELSE VibranceStep(c, Gray(c[1], c[2], c[3]), s)
  ELSE c

\* 4. colour (lines 90-113)
ColourStep(c, s) ==
  IF s.saturation # 0 \/ s.vibrance # 0
    THEN SaturationStep(VibranceStep(c, Gray(c[1], c[2], c[3]), s),
                        Gray(c[1], c[2], c[3]), s)
  ELSE c

\* The loop body for one pixel: the values r, g, b that lines 115-117 assign
\* to data[i .. i+2], before the array stores them.  p = <<r, g, b, a>>.
ToneValues(p, s) ==
  ColourStep(
    ClampStep(
      ContrastStep(
        ToneCurveStep(
          TintStep(TempStep(ExposureStep(<<Fx(p[1]), Fx(p[2]), Fx(p[3])>>, s), s), s),
          s),
        s)),
    s)

\* mutant of ToUint8Clamp: a plain array, which rounds but does not clamp
ToUint8NoClamp(x) ==
  LET q == x \div Scale
      m == x % Scale
  IN  IF x = NaN THEN 0
      ELSE IF 2 * m > Scale THEN q + 1
      ELSE IF 2 * m < Scale THEN q
      ELSE IF q % 2 = 0 THEN q ELSE q + 1

\* What a Uint8ClampedArray element holds after data[i] = x: NaN gives 0,
\* otherwise x rounded to the nearest integer, ties to even, clamped to 0..255
ToUint8Clamp(x) ==
  LET q == x \div Scale
      m == x % Scale
      n == IF 2 * m > Scale THEN q + 1
           ELSE IF 2 * m < Scale THEN q
           ELSE IF q % 2 = 0 THEN q ELSE q + 1
  IN  IF x = NaN THEN 0 ELSE Max2(0, Min2(255, n))

\* mutant of TonePixel: the loop stores an opaque alpha, data[i+3] = 255
TonePixelOpaque(p, s) ==
  LET v == ToneValues(p, s)
  IN  <<ToUint8Clamp(v[1]), ToUint8Clamp(v[2]), ToUint8Clamp(v[3]), 255>>

\* One pixel after the loop body: r, g, b stored, a untouched
TonePixel(p, s) ==
  LET v == ToneValues(p, s)
  IN  <<ToUint8Clamp(v[1]), ToUint8Clamp(v[2]), ToUint8Clamp(v[3]), p[4]>>

\* ---------------------------------------------------------- 2D canvas
\* A pixel is <<r, g, b, a>>, every sample in 0..255.  A bitmap is a record
\* [w, h, px] with px the w*h pixels in row-major order.  An opacity is an
\* integer in 0..OpScale standing for opacity/OpScale.

OpScale == 10000

Clear == <<0, 0, 0, 0>>

\* a bitmap of w by h transparent-black pixels (what setting canvas.width or
\* canvas.height leaves)
ClearBitmap(w, h) == [w |-> w, h |-> h, px |-> [i \in 1..(w * h) |-> Clear]]

\* mutant of Blend255: a canvas without blend modes, every mode the backdrop
BlendNone255(mode, cb, cs) == IF mode = "source-over" THEN 255 * cs ELSE 255 * cb

\* 255 * B(cb, cs) for the blend function B of a globalCompositeOperation
Blend255(mode, cb, cs) ==
  CASE mode = "source-over" -> 255 * cs
    [] mode = "multiply"    -> cb * cs
    [] mode = "screen"      -> 255 * 255 - (255 - cb) * (255 - cs)
    [] mode = "overlay"     -> IF cb < 128 THEN 2 * cb * cs
                               ELSE 255 * 255 - 2 * (255 - cb) * (255 - cs)

\* an 8-bit alpha as an opacity
AlphaOf(a) == MulDiv(a * OpScale, 1, 255)

\* One pixel of source s drawn over backdrop pixel b with the given mode and
\* global alpha (an opacity):
\*   ao = as + ab (1 - as)
\*   co = as (1 - ab) Cs + as ab B(Cb, Cs) + (1 - as) ab Cb,   Co = co / ao
CompositePixel(b, s, mode, alpha) ==
  LET as == MulDiv(s[4] * alpha, 1, 255)
      ab == AlphaOf(b[4])
      ao == as + MulDiv(ab, OpScale - as, OpScale)
      ch(k) ==
        LET t1 == MulDiv(as * s[k], OpScale - ab, OpScale)
            t2 == MulDiv(MulDiv(as, Blend255(mode, b[k], s[k]), 255), ab, OpScale)
            t3 == MulDiv((OpScale - as) * b[k], ab, OpScale)
        IN  Max2(0, Min2(255, MulDiv(t1 + t2 + t3, 1, ao)))
  IN  IF ao = 0 THEN Clear
      ELSE <<ch(1), ch(2), ch(3), Max2(0, Min2(255, MulDiv(ao * 255, 1, OpScale)))>>

\* the index of pixel (x, y), 0-based coordinates, or 0 outside the bitmap
Idx(bm, x, y) ==
  IF x < 0 \/ y < 0 \/ x >= bm.w \/ y >= bm.h THEN 0 ELSE y * bm.w + x + 1

\* The blur filter.  The kernel is the browser's choice; two are modelled:
\* "none" (a radius too small to move an 8-bit sample) and "binomial3", the
\* 3x3 kernel (1 2 1; 2 4 2; 1 2 1)/16.  Pixels outside the bitmap are
\* transparent black; the sum is over premultiplied samples.
KernelWeight(dx, dy) == (2 - Abs(dx)) * (2 - Abs(dy))

BlurBitmap(bm, kernel) ==
  LET nb == {<<dx, dy>> \in {-1, 0, 1} \X {-1, 0, 1} : TRUE}
      RECURSIVE Sum(_, _, _)
      \* sum over the offsets in S of weight * alpha * sample k (k = 4: alpha)
      Sum(S, i, k) ==
        IF S = {} THEN 0
        ELSE LET o == CHOOSE o \in S : TRUE
                 x == ((i - 1) % bm.w) + o[1]
                 y == ((i - 1) \div bm.w) + o[2]
                 j == Idx(bm, x, y)
                 v == IF j = 0 THEN 0
                      ELSE IF k = 4 THEN KernelWeight(o[1], o[2]) * bm.px[j][4]
                      ELSE KernelWeight(o[1], o[2]) * bm.px[j][4] * bm.px[j][k]
             IN  v + Sum(S \ {o}, i, k)
      out(i) ==
        LET sa == Sum(nb, i, 4)
            c(k) == IF sa = 0 THEN 0 ELSE MulDiv(Sum(nb, i, k), 1, sa)
        IN  <<c(1), c(2), c(3), MulDiv(sa, 1, 16)>>
  IN  IF kernel = "none" THEN bm
      ELSE [bm EXCEPT !.px = [i \in 1..(bm.w * bm.h) |-> out(i)]]

\* The drawing context: the canvas bitmap and the context's drawing state.
\* filter is the blur radius in 1/100 px, 0 for 'none'.  fill is the
\* fillStyle: [kind |-> "color", c, a] or [kind |-> "gradient", ...].
\* err is "none" until a call throws.
NewContext(w, h) ==
  [bm |-> ClearBitmap(w, h), gco |-> "source-over", alpha |-> OpScale,
   filter |-> 0, fill |-> [kind |-> "color", c |-> 0, a |-> OpScale],
   err |-> "none"]

\* ctx.globalCompositeOperation = mode
SetGco(c, mode) == [c EXCEPT !.gco = mode]

\* ctx.globalAlpha = a: a value that is NaN or outside [0, 1] is ignored
SetGlobalAlpha(c, a) ==
  IF a = NaN \/ a < 0 \/ a > OpScale THEN c ELSE [c EXCEPT !.alpha = a]

\* ctx.filter = `blur(${r}px)`: an unparseable value (NaN) is ignored
SetFilter(c, r) == IF r = NaN \/ r < 0 THEN c ELSE [c EXCEPT !.filter = r]

\* ctx.fillStyle = `rgba(v,v,v,${a})`: an unparseable colour is ignored, an
\* alpha outside [0, 1] is clamped
SetFillColor(c, v, a) ==
  IF a = NaN THEN c
  ELSE [c EXCEPT !.fill = [kind |-> "color", c |-> v,
                           a |-> Max2(0, Min2(OpScale, a))]]

\* ctx.drawImage(image, 0, 0, w, h) with w, h the canvas size (the image is
\* drawn unscaled: the caller sizes the canvas to the image); an image of
\* zero width or height draws nothing
DrawImage(c, img) ==
  IF img.w = 0 \/ img.h = 0 \/ c.bm.w = 0 \/ c.bm.h = 0 THEN c
  ELSE [c EXCEPT !.bm.px = [i \in 1..(c.bm.w * c.bm.h) |->
          CompositePixel(c.bm.px[i], img.px[i], c.gco, c.alpha)]]

\* ctx.drawImage(ctx.canvas, 0, 0): the canvas drawn onto itself, through
\* the current filter
DrawCanvas(c, kernel) ==
  LET src == IF c.filter = 0 THEN c.bm ELSE BlurBitmap(c.bm, kernel)
  IN  [c EXCEPT !.bm.px = [i \in 1..(c.bm.w * c.bm.h) |->
          CompositePixel(c.bm.px[i], src.px[i], c.gco, c.alpha)]]

\* floor(sqrt(n)) by bisection on lo..hi
RECURSIVE ISqrtIn(_, _, _)
ISqrtIn(n, lo, hi) ==
  IF lo >= hi THEN lo
  ELSE LET mid == (lo + hi + 1) \div 2
       IN  IF mid * mid <= n THEN ISqrtIn(n, mid, hi) ELSE ISqrtIn(n, lo, mid - 1)

ISqrt(n) == ISqrtIn(n, 0, 46340)

\* mutant of GradientT: a linear gradient along x, the distance measured in
\* x alone
GradientTAlongX(w, h, i) ==
  LET x == (i - 1) % w
      sq == ISqrt((2 * x + 1 - w) * (2 * x + 1 - w) * 1000000)
  IN  Max2(0, Min2(1000, MulDiv(3 * sq - 2000 * w, 1, 5 * Max2(w, h) - 2 * w)))

\* The position t in 0..1000 (thousandths) of pixel i along the gradient
\* createRadialGradient(w/2, h/2, w/3, w/2, h/2, Math.max(w,h)/1.2), sampled
\* at the pixel's centre: t = (dist - r0) / (r1 - r0) clamped to [0, 1],
\* with 6*dist = 3*sqrt((2x+1-w)^2 + (2y+1-h)^2), 6*r0 = 2w, 6*r1 = 5*max(w,h)
GradientT(w, h, i) ==
  LET x == (i - 1) % w
      y == (i - 1) \div w
      d2 == (2 * x + 1 - w) * (2 * x + 1 - w) + (2 * y + 1 - h) * (2 * y + 1 - h)
      sq == ISqrt(d2 * 1000000)
  IN  Max2(0, Min2(1000, MulDiv(3 * sq - 2000 * w, 1, 5 * Max2(w, h) - 2 * w)))

\* ctx.fillRect(0, 0, w, h) with the current fillStyle
FillRect(c) ==
  LET layer(i) ==
        IF c.fill.kind = "color" THEN <<c.fill.c, c.fill.c, c.fill.c,
                                       MulDiv(c.fill.a * 255, 1, OpScale)>>
        ELSE <<c.fill.c, c.fill.c, c.fill.c,
               MulDiv(MulDiv(c.fill.a, GradientT(c.bm.w, c.bm.h, i), 1000) * 255,
                      1, OpScale)>>
  IN  [c EXCEPT !.bm.px = [i \in 1..(c.bm.w * c.bm.h) |->
          CompositePixel(c.bm.px[i], layer(i), c.gco, c.alpha)]]

\* ------------------------------------------------- processImage, by stage
\* A call that throws leaves err set; the statements after it do not run.

\* line 13: ctx.drawImage(originalImage, 0, 0, w, h)
StageDraw(c, img) == DrawImage(c, img)

\* lines 15-120: getImageData (IndexSizeError on an empty rectangle), the
\* per-pixel loop, putImageData (which ignores the drawing state)
StageTone(c, s) ==
  IF c.bm.w = 0 \/ c.bm.h = 0 THEN [c EXCEPT !.err = "IndexSizeError"]
  ELSE [c EXCEPT !.bm.px = [i \in 1..(c.bm.w * c.bm.h) |-> TonePixel(c.bm.px[i], s)]]

\* line 131: the blur radius Math.abs(amt) * 2, in 1/100 px
ClarityRadius(clarity) == IF clarity = NaN THEN NaN ELSE Abs(clarity) * 2

\* mutant of ClarityOpacity: the factor mistyped, 0.5 + amt * 4
ClarityOpacityFactor4(clarity) == IF clarity = NaN THEN NaN ELSE 5000 + clarity * 400

\* line 134: the opacity 0.5 + amt * 0.4 the original image is drawn with
ClarityOpacity(clarity) == IF clarity = NaN THEN NaN ELSE 5000 + clarity * 40

\* mutant of StageClarity: for clarity < 0 the surface as the tone pass left
\* it is drawn back, not the original image
StageClarityOverToned(c, img, s, kernel) ==
  IF s.clarity = 0 THEN c
  ELSE IF s.clarity # NaN /\ s.clarity > 0
    THEN SetGco(FillRect(SetFillColor(SetGco(c, "overlay"), 128, s.clarity * 40)),
                "source-over")
  ELSE LET c1 == DrawCanvas(SetFilter(c, ClarityRadius(s.clarity)), kernel)
           c2 == SetGlobalAlpha([c1 EXCEPT !.filter = 0], ClarityOpacity(s.clarity))
       IN  SetGlobalAlpha(DrawImage(c2, c.bm), OpScale)

\* mutant of StageClarity: the negative branch without its closing
\* ctx.globalAlpha = 1.0
StageClarityAlphaLeft(c, img, s, kernel) ==
  IF s.clarity = 0 THEN c
  ELSE IF s.clarity # NaN /\ s.clarity > 0
    THEN SetGco(FillRect(SetFillColor(SetGco(c, "overlay"), 128, s.clarity * 40)),
                "source-over")
  ELSE LET c1 == DrawCanvas(SetFilter(c, ClarityRadius(s.clarity)), kernel)
           c2 == SetGlobalAlpha([c1 EXCEPT !.filter = 0], ClarityOpacity(s.clarity))
       IN  DrawImage(c2, img)

\* lines 123-138
StageClarity(c, img, s, kernel) ==
  IF s.clarity = 0 THEN c
  ELSE IF s.clarity # NaN /\ s.clarity > 0
    THEN SetGco(FillRect(SetFillColor(SetGco(c, "overlay"), 128, s.clarity * 40)),
                "source-over")
  ELSE LET c1 == DrawCanvas(SetFilter(c, ClarityRadius(s.clarity)), kernel)
           c2 == SetGlobalAlpha([c1 EXCEPT !.filter = 0], ClarityOpacity(s.clarity))
       IN  SetGlobalAlpha(DrawImage(c2, img), OpScale)

\* mutant of StageSharpness: the guard sharpness !== 0 in place of > 0
StageSharpnessNonzero(c, s, kernel) ==
  IF s.sharpness # NaN /\ s.sharpness # 0
    THEN SetGco(SetGlobalAlpha(
                  DrawCanvas(SetGlobalAlpha(SetGco(c, "overlay"), s.sharpness * 25),
                             kernel),
                  OpScale),
                "source-over")
  ELSE c

\* lines 140-147
StageSharpness(c, s, kernel) ==
  IF s.sharpness # NaN /\ s.sharpness > 0
    THEN SetGco(SetGlobalAlpha(
                  DrawCanvas(SetGlobalAlpha(SetGco(c, "overlay"), s.sharpness * 25),
                             kernel),
                  OpScale),
                "source-over")
  ELSE c

\* mutant of StageVignette: the sign test reversed, white and screen for a
\* positive vignette
StageVignetteSignSwapped(c, s) ==
  IF s.vignette = 0 THEN c
  ELSE IF s.vignette = NaN THEN [c EXCEPT !.err = "SyntaxError"]
  ELSE LET alpha == Min2(OpScale, Abs(s.vignette) * 80)
           c1 == IF s.vignette > 0
                   THEN [SetGco(c, "screen") EXCEPT
                           !.fill = [kind |-> "gradient", c |-> 255, a |-> alpha]]
                 ELSE [SetGco(c, "multiply") EXCEPT
                         !.fill = [kind |-> "gradient", c |-> 0, a |-> alpha]]
       IN  SetGco(FillRect(c1), "source-over")

\* lines 149-166: addColorStop throws a SyntaxError on a colour it cannot
\* parse (an alpha of NaN)
StageVignette(c, s) ==
  IF s.vignette = 0 THEN c
  ELSE IF s.vignette = NaN THEN [c EXCEPT !.err = "SyntaxError"]
  ELSE LET alpha == Min2(OpScale, Abs(s.vignette) * 80)
           c1 == IF s.vignette < 0
                 THEN [SetGco(c, "screen") EXCEPT
                         !.fill = [kind |-> "gradient", c |-> 255, a |-> alpha]]
                 ELSE [SetGco(c, "multiply") EXCEPT
                         !.fill = [kind |-> "gradient", c |-> 0, a |-> alpha]]
       IN  SetGco(FillRect(c1), "source-over")

Stages == <<"draw", "tone", "clarity", "sharpness", "vignette">>

\* the context after the stage named st has run on c
RunStage(st, c, img, s, kernel) ==
  CASE st = "draw"      -> StageDraw(c, img)
    [] st = "tone"      -> StageTone(c, s)
    [] st = "clarity"   -> StageClarity(c, img, s, kernel)
    [] st = "sharpness" -> StageSharpness(c, s, kernel)
    [] st = "vignette"  -> StageVignette(c, s)

\* the stages named in order, run one after the other, stopping at a throw
RECURSIVE RunStages(_, _, _, _, _)
RunStages(order, c, img, s, kernel) ==
  IF order = <<>> \/ c.err # "none" THEN c
  ELSE RunStages(Tail(order), RunStage(Head(order), c, img, s, kernel), img, s, kernel)

\* processImage(ctx, originalImage, settings), lines 4-167
ProcessImage(c, img, s, kernel) == RunStages(Stages, c, img, s, kernel)

\* App.tsx, the render effect (lines 140-150): sizing the canvas clears its
\* bitmap and resets the context, then processImage runs
RenderEffect(img, s, kernel) == ProcessImage(NewContext(img.w, img.h), img, s, kernel)

\* mutant of SizeCanvas: the canvas sized for the first image only
SizeCanvasOnce(c, w, h) == IF c.bm.w = 0 /\ c.bm.h = 0 THEN NewContext(w, h) ELSE c

\* mutant of SizeCanvas: a canvas whose size does not change keeps its bitmap
SizeCanvasKeeping(c, w, h) == IF c.bm.w = w /\ c.bm.h = h THEN c ELSE NewContext(w, h)

\* canvas.width = w; canvas.height = h (App.tsx lines 145-146) on the canvas
\* of context c: the assignment, even of the size the canvas has, clears the
\* bitmap and resets the context's drawing state
SizeCanvas(c, w, h) == NewContext(w, h)

\* the render effect on the canvas as the last render left it
RenderOn(c, img, s, kernel) == ProcessImage(SizeCanvas(c, img.w, img.h), img, s, kernel)

\* ------------------------------------------------------------- state

VARIABLES
  \* one call of processImage, stage by stage
  pc,         \* the stage about to run, "done" after the last, "thrown"
  src,        \* originalImage
  cfg,        \* settings
  ctx,        \* the drawing context and its canvas
  ran,        \* the stages whose drawing or pixel code has run, in order
  kernel,     \* the browser's blur kernel
  \* the editor component
  image,      \* useState image: an image, or NoImage
  settings,   \* useState settings
  isAIAnalyzing,
  aiPending,  \* the generateContent calls awaiting their response
  canvas,     \* the drawing context of canvasRef after the last render
  crashed,    \* a render effect threw: React unmounts the component
  events,     \* user and network events so far
  capture     \* what the last canvas.toDataURL call read, or NoRead

renderVars == <<pc, src, cfg, ctx, ran, kernel>>
appVars == <<image, settings, isAIAnalyzing, aiPending, canvas, crashed, events>>
vars == <<pc, src, cfg, ctx, ran, kernel,
          image, settings, isAIAnalyzing, aiPending, canvas, crashed, events, capture>>

NoImage == [w |-> 0, h |-> 0, px |-> <<>>]

\* no toDataURL call so far
NoRead == [by |-> "none", img |-> NoImage, bm |-> ClearBitmap(0, 0)]

Kernels == {"none", "binomial3"}

\* ------------------------------------------ one render, stage by stage

OnlyField(f, v) == [INITIAL_SETTINGS EXCEPT ![f] = v]

\* a w-by-h image of one colour
Uniform(w, h, p) == [w |-> w, h |-> h, px |-> [i \in 1..(w * h) |-> p]]

\* whether the drawing or pixel code of stage st runs for settings s
StageActs(st, s) ==
  CASE st = "draw"      -> TRUE
    [] st = "tone"      -> TRUE
    [] st = "clarity"   -> s.clarity # 0
    [] st = "sharpness" -> s.sharpness # NaN /\ s.sharpness > 0
    [] st = "vignette"  -> s.vignette # 0

\* mutant of NextStage: sharpness before clarity
NextStageSwapped(st) ==
  CASE st = "draw"      -> "tone"
    [] st = "tone"      -> "sharpness"
    [] st = "sharpness" -> "clarity"
    [] st = "clarity"   -> "vignette"
    [] st = "vignette"  -> "done"

\* the statement order of processImage: what follows stage st
NextStage(st) ==
  CASE st = "draw"      -> "tone"
    [] st = "tone"      -> "clarity"
    [] st = "clarity"   -> "sharpness"
    [] st = "sharpness" -> "vignette"
    [] st = "vignette"  -> "done"

AppIdle ==
  /\ image = NoImage
  /\ settings = INITIAL_SETTINGS
  /\ isAIAnalyzing = FALSE
  /\ aiPending = 0
  /\ canvas = NewContext(0, 0)
  /\ crashed = FALSE
  /\ events = 0
  /\ capture = NoRead

\* a call processImage(ctx, img, s) on a canvas the caller has just sized
RenderInit(cases) ==
  /\ \E cs \in cases :
       /\ src = cs.img
       /\ cfg = cs.s
       /\ ctx = NewContext(cs.img.w, cs.img.h)
  /\ kernel \in Kernels
  /\ pc = "draw"
  /\ ran = <<>>
  /\ AppIdle

\* stage st runs on the context
Run(st) ==
  /\ ctx' = RunStage(st, ctx, src, cfg, kernel)
  /\ pc' = IF ctx'.err # "none" THEN "thrown" ELSE NextStage(st)
  /\ ran' = IF StageActs(st, cfg) THEN Append(ran, st) ELSE ran
  /\ UNCHANGED <<src, cfg, kernel>>
  /\ UNCHANGED <<appVars, capture>>

DrawStep ==
  /\ pc = "draw"
  /\ Run("draw")

ToneStep ==
  /\ pc = "tone"
  /\ Run("tone")

ClarityStep ==
  /\ pc = "clarity"
  /\ Run("clarity")

SharpnessStep ==
  /\ pc = "sharpness"
  /\ Run("sharpness")

VignetteStep ==
  /\ pc = "vignette"
  /\ Run("vignette")

RenderNext == DrawStep \/ ToneStep \/ ClarityStep \/ SharpnessStep \/ VignetteStep

\* ---- inputs of the tone and colour pass: one pixel, one field set

\* the largest image side drawn from
MaxDim == 2

\* pixel i of the test pattern: a ramp along the pixel order
RampPixel(i) == <<(40 + 70 * i) % 256, (200 + 30 * i) % 256, (90 * i) % 256, 255>>

Ramp(w, h) == [w |-> w, h |-> h, px |-> [i \in 1..(w * h) |-> RampPixel(i)]]


GrayLevels == {0, 1, 64, 127, 128, 129, 200, 201, 254, 255}

TonePixels ==
  {<<v, v, v, 255>> : v \in GrayLevels} \cup
  {<<255, 0, 0, 255>>, <<0, 255, 0, 255>>, <<0, 0, 255, 255>>, <<200, 100, 50, 255>>,
   <<128, 128, 0, 255>>, <<10, 128, 250, 255>>, <<100, 100, 100, 128>>,
   <<100, 100, 100, 255>>,
   <<128, 64, 200, 1>>, <<0, 0, 0, 0>>}

ToneFields == {"exposure", "contrast", "shadows", "highlights", "whites", "temp",
               "tint", "saturation", "vibrance"}

FieldSteps == {-100, -75, -50, -25, 25, 50, 75, 100}

ToneSettings ==
  {INITIAL_SETTINGS} \cup {OnlyField(f, v) : f \in ToneFields, v \in FieldSteps}

ToneCases ==
  {[img |-> Uniform(1, 1, p), s |-> s] : p \in TonePixels, s \in ToneSettings}
  \cup {[img |-> Ramp(w, h), s |-> INITIAL_SETTINGS] : w \in 1..MaxDim, h \in 1..MaxDim}

ToneInit == RenderInit(ToneCases)
SpecTone == ToneInit /\ [][RenderNext]_vars

\* ---- inputs of the tone curve: shadows, highlights and whites together

CurvePixels == {<<200, 200, 200, 255>>, <<88, 252, 226, 255>>, <<201, 201, 201, 255>>,
                <<199, 199, 199, 255>>, <<100, 100, 100, 255>>, <<150, 150, 150, 255>>,
                <<250, 250, 250, 255>>, <<200, 100, 50, 255>>}

CurveSettings ==
  {[INITIAL_SETTINGS EXCEPT !.exposure = e, !.shadows = sh, !.highlights = hi,
                            !.whites = wh] :
     e \in {0, 100}, sh \in {-100, 0, 100}, hi \in {-100, 0, 100}, wh \in {-100, 0, 100}}

CurveCases == {[img |-> Uniform(1, 1, p), s |-> s] : p \in CurvePixels, s \in CurveSettings}

CurveInit == RenderInit(CurveCases)
SpecCurve == CurveInit /\ [][RenderNext]_vars

\* ---- inputs of the colour step: vibrance and saturation together

ColourPixels == {<<200, 100, 50, 255>>, <<10, 128, 250, 255>>, <<255, 0, 0, 255>>,
                 <<128, 128, 0, 255>>, <<100, 100, 100, 255>>}

ColourSteps == {-100, -50, 50, 100}

ColourSettings ==
  {[INITIAL_SETTINGS EXCEPT !.exposure = e, !.vibrance = v, !.saturation = sat] :
     e \in {0, 100}, v \in ColourSteps, sat \in ColourSteps}

ColourCases == {[img |-> Uniform(1, 1, p), s |-> s] : p \in ColourPixels, s \in ColourSettings}

ColourInit == RenderInit(ColourCases)
SpecColour == ColourInit /\ [][RenderNext]_vars

\* ---- inputs with every field at an end of its slider

ExtremeSettings ==
  {[f \in Fields |-> IF f \in up THEN FieldMax(f) ELSE FieldMin(f)] : up \in SUBSET Fields}

ExtremePixels == {<<255, 0, 0, 255>>, <<0, 0, 0, 255>>, <<255, 255, 255, 255>>,
                  <<10, 128, 250, 255>>}

ExtremeCases == {[img |-> Uniform(1, 1, p), s |-> s] : p \in ExtremePixels,
                                                      s \in ExtremeSettings}

ExtremeInit == RenderInit(ExtremeCases)
SpecExtreme == ExtremeInit /\ [][RenderNext]_vars

\* ---- inputs outside the documented domain, missing fields, empty images

OutOfRangeSettings ==
  {OnlyField("exposure", 500), OnlyField("exposure", -200), OnlyField("contrast", 259),
   OnlyField("contrast", 300), OnlyField("contrast", -255), OnlyField("sharpness", -50),
   OnlyField("sharpness", 500), OnlyField("saturation", 250), OnlyField("shadows", -300),
   OnlyField("clarity", 300), OnlyField("clarity", -200), OnlyField("vignette", 300),
   OnlyField("vignette", -150), OnlyField("temp", 400), OnlyField("whites", 200)}

\* a field that is missing (undefined) or not a number
MissingFieldSettings == {OnlyField(f, NaN) : f \in Fields}

InRange(s) == \A f \in Fields : s[f] # NaN /\ s[f] >= FieldMin(f) /\ s[f] <= FieldMax(f)

\* every field at the nearest bound of its domain
ClampSettings(s) ==
  [f \in Fields |-> IF s[f] = NaN THEN NaN
                    ELSE Max2(FieldMin(f), Min2(FieldMax(f), s[f]))]

RangePixels == {<<5, 5, 5, 255>>, <<128, 128, 128, 255>>, <<200, 100, 50, 255>>}

RangeImages ==
  {Uniform(w, h, p) : w \in 1..MaxDim, h \in 1..MaxDim, p \in RangePixels}

EmptyImages == {Uniform(0, MaxDim, Clear), Uniform(MaxDim, 0, Clear), Uniform(0, 0, Clear)}

RangeCases ==
  {[img |-> i, s |-> s] : i \in RangeImages,
                          s \in OutOfRangeSettings \cup MissingFieldSettings
                                \cup {INITIAL_SETTINGS}}
  \cup {[img |-> i, s |-> s] : i \in EmptyImages,
                               s \in {INITIAL_SETTINGS, OnlyField("contrast", 50)}}

RangeInit == RenderInit(RangeCases)
SpecRange == RangeInit /\ [][RenderNext]_vars

\* ---- inputs of the post-process effects: clarity, sharpness, vignette

PostImages ==
  {Uniform(w, h, <<200, 100, 50, 255>>) : w \in 1..MaxDim, h \in 1..MaxDim}
  \cup {Ramp(w, h) : w \in 1..MaxDim, h \in 1..MaxDim}
  \cup {Uniform(1, MaxDim, <<120, 60, 240, 128>>)}

PostSettings ==
  {[INITIAL_SETTINGS EXCEPT !.clarity = c, !.sharpness = sh, !.vignette = v] :
     c \in {-100, -50, 0, 50, 100}, sh \in {0, 50, 100}, v \in {-60, 0, 40, 100}}
  \cup {[INITIAL_SETTINGS EXCEPT !.exposure = e, !.clarity = c] :
          e \in {-100, 100}, c \in {-100, -50, -1}}
  \cup {OnlyField("sharpness", sh) : sh \in {-100, -50, 1}}

PostCases == {[img |-> i, s |-> s] : i \in PostImages, s \in PostSettings}

PostInit == RenderInit(PostCases)
SpecPost == PostInit /\ [][RenderNext]_vars

\* ---- inputs of the vignette: one colour, every size up to MaxDim + 1

VignetteSides == 1..(MaxDim + 1)

VignetteImages == {Uniform(w, h, <<200, 100, 50, 255>>) : w \in VignetteSides,
                                                         h \in VignetteSides}

VignetteSettings == {OnlyField("vignette", v) : v \in {-100, -50, -1, 1, 40, 100}}

VignetteCases == {[img |-> i, s |-> s] : i \in VignetteImages, s \in VignetteSettings}

VignetteInit == RenderInit(VignetteCases)
SpecVignette == VignetteInit /\ [][RenderNext]_vars

\* ---- the canvas read while renders come and go

\* the most user and network events in one run
MaxEvents == 4

\* mutant of Suspends: an await before the vignette stage
SuspendsBeforeVignette(st) == st = "vignette"

\* whether processImage gives up the thread before stage st: it is a plain
\* function, called from the effect, with no await, yield or callback
Suspends(st) == FALSE

\* a handler can start: no render is on the stack, or the render is suspended
HandlerCanStart == pc \in {"done", "thrown"} \/ Suspends(pc)

ExportImages == {Uniform(1, 1, <<200, 100, 50, 255>>), Ramp(1, MaxDim)}

ExportSettings ==
  {INITIAL_SETTINGS,
   [INITIAL_SETTINGS EXCEPT !.clarity = 50, !.sharpness = 50, !.vignette = 100],
   [INITIAL_SETTINGS EXCEPT !.exposure = 100, !.clarity = -50, !.vignette = -60]}

ExportCases == {[img |-> i, s |-> s] : i \in ExportImages, s \in ExportSettings}

ExportInit == RenderInit(ExportCases)

\* canvasRef.current.toDataURL(...)
ReadCanvas(by) == capture' = [by |-> by, img |-> src, bm |-> ctx.bm]

\* handleDownload (App.tsx lines 65-72)
HandleDownload ==
  /\ HandlerCanStart
  /\ events < MaxEvents
  /\ ReadCanvas("download")
  /\ events' = events + 1
  /\ UNCHANGED <<renderVars, image, settings, isAIAnalyzing, aiPending, canvas, crashed>>

\* analyzeWithAI up to its await (App.tsx lines 87-97)
CaptureForAI ==
  /\ HandlerCanStart
  /\ events < MaxEvents
  /\ ~isAIAnalyzing
  /\ isAIAnalyzing' = TRUE
  /\ ReadCanvas("ai")
  /\ events' = events + 1
  /\ UNCHANGED <<renderVars, image, settings, aiPending, canvas, crashed>>

\* analyzeWithAI after its await, a request that changes no settings
CaptureSettled ==
  /\ HandlerCanStart
  /\ isAIAnalyzing
  /\ isAIAnalyzing' = FALSE
  /\ UNCHANGED <<renderVars, image, settings, aiPending, canvas, crashed, events, capture>>

\* the render effect for new settings (App.tsx lines 140-150) up to the call
\* of processImage
RenderAgain(s) ==
  /\ HandlerCanStart
  /\ events < MaxEvents
  /\ cfg' = s
  /\ ctx' = SizeCanvas(ctx, src.w, src.h)
  /\ pc' = "draw"
  /\ ran' = <<>>
  /\ events' = events + 1
  /\ UNCHANGED <<src, kernel, image, settings, isAIAnalyzing, aiPending, canvas, crashed,
                 capture>>

ExportNext ==
  \/ RenderNext
  \/ HandleDownload
  \/ CaptureForAI
  \/ CaptureSettled
  \/ \E s \in ExportSettings : RenderAgain(s)

SpecExport == ExportInit /\ [][ExportNext]_vars

\* ------------------------------------------------ the editor component

\* constants.ts: the fields each preset lists
PresetSettings(type) ==
  CASE type = "natgeo" ->
         [contrast |-> 15, shadows |-> 20, highlights |-> -30, clarity |-> 20,
          saturation |-> 10, vibrance |-> 15, temp |-> 10]
    [] type = "sony" ->
         [exposure |-> 5, contrast |-> 20, highlights |-> -50, shadows |-> 30,
          whites |-> 10, clarity |-> 10, sharpness |-> 30, temp |-> -10]
    [] type = "cinematic" ->
         [contrast |-> 25, shadows |-> -20, highlights |-> -10, saturation |-> -15,
          temp |-> -20, tint |-> 10, vignette |-> 60, clarity |-> 30]
    [] type = "clean" ->
         [exposure |-> 0, contrast |-> 5, shadows |-> 10, highlights |-> -10,
          clarity |-> 10, sharpness |-> 10]
    [] type = "hdr" ->
         [highlights |-> -40, shadows |-> 40, whites |-> 10, contrast |-> 15,
          clarity |-> 25, vibrance |-> 15, sharpness |-> 10]
    [] type = "drone" ->
         [contrast |-> 30, clarity |-> 45, saturation |-> 20, vibrance |-> 40,
          highlights |-> -15, shadows |-> 10, sharpness |-> 25]
    [] type = "automotive" ->
         [clarity |-> 35, contrast |-> 15, sharpness |-> 40, highlights |-> -25,
          exposure |-> 5, temp |-> -5]
    [] type = "moon" ->
         [exposure |-> 10, contrast |-> 40, shadows |-> -60, highlights |-> -40,
          clarity |-> 50, sharpness |-> 60, temp |-> -10]
    [] type = "night" ->
         [exposure |-> 20, shadows |-> 50, highlights |-> -15, contrast |-> 10,
          clarity |-> 15, saturation |-> 10, temp |-> -5, tint |-> 5]
    [] type = "selfie" ->
         [exposure |-> 5, contrast |-> -10, shadows |-> 15, highlights |-> -15,
          clarity |-> -35, sharpness |-> 20, saturation |-> -5, vignette |-> 30]

PresetNames == {"natgeo", "sony", "cinematic", "clean", "hdr", "drone",
                "automotive", "moon", "night", "selfie"}

\* { ...a, ...b }: the fields of b over those of a
Spread(a, b) == [f \in Fields |-> IF f \in DOMAIN b THEN b[f] ELSE a[f]]


AppImages == {Uniform(1, 1, <<200, 100, 50, 255>>), Ramp(2, 1),
              Uniform(1, 1, <<100, 100, 100, 128>>)}

\* the values a slider is moved to
SliderInputs == {<<"exposure", 100>>, <<"saturation", -100>>, <<"sharpness", 100>>,
                 <<"vignette", -100>>}

\* the presets clicked
PresetInputs == {"cinematic", "selfie"}

\* The text of a generateContent response: kind "json" is a JSON object
\* holding the fields of doc that are not NaN (NaN marks a field the
\* document leaves out), "garbage" is text that is no JSON, "empty" is no
\* text; fenced: the text is wrapped in a markdown code fence.
AIDocs ==
  {[INITIAL_SETTINGS EXCEPT !.contrast = 20, !.vibrance = 25, !.sharpness = 15],
   [INITIAL_SETTINGS EXCEPT !.exposure = NaN, !.contrast = 10],
   [f \in Fields |-> IF f = "saturation" THEN 40 ELSE NaN],
   [INITIAL_SETTINGS EXCEPT !.exposure = 500, !.clarity = -200]}

AIResponses ==
  {[kind |-> "json", fenced |-> fc, doc |-> d] : fc \in BOOLEAN, d \in AIDocs}
  \cup {[kind |-> "garbage", fenced |-> FALSE, doc |-> INITIAL_SETTINGS],
        [kind |-> "empty", fenced |-> FALSE, doc |-> INITIAL_SETTINGS]}

\* JSON.parse(response.text) returns (App.tsx line 129); otherwise it throws
ParseOk(resp) == resp.kind = "json" /\ ~resp.fenced

\* the render effect (App.tsx lines 140-150) for the state being committed
Rendered(img, s) == IF img = NoImage THEN canvas ELSE RenderOn(canvas, img, s, kernel)

\* a state change is committed and the render effect runs on it
Commit(img, s) ==
  /\ image' = img
  /\ settings' = s
  /\ canvas' = Rendered(img, s)
  /\ crashed' = (canvas'.err # "none")
  /\ events' = events + 1

Live == ~crashed /\ events < MaxEvents

\* mutant of ImageLoaded: img.onload without setSettings(INITIAL_SETTINGS)
ImageLoadedKeepingSettings(img) ==
  /\ Live
  /\ Commit(img, settings)
  /\ UNCHANGED <<isAIAnalyzing, aiPending>>

\* handleFileUpload: the image has loaded (img.onload, lines 53-58)
ImageLoaded(img) ==
  /\ Live
  /\ Commit(img, INITIAL_SETTINGS)
  /\ UNCHANGED <<isAIAnalyzing, aiPending>>

\* a ControlSlider's onChange: setSettings(s => ({...s, [f]: v}))
SliderChange(f, v) ==
  /\ Live
  /\ Commit(image, [settings EXCEPT ![f] = v])
  /\ UNCHANGED <<isAIAnalyzing, aiPending>>

\* mutant of ApplyPreset: the preset merged over the current settings,
\* { ...settings, ...preset.settings }
ApplyPresetOverCurrent(type) ==
  /\ Live
  /\ Commit(image, IF type = "reset" THEN INITIAL_SETTINGS
                   ELSE Spread(settings, PresetSettings(type)))
  /\ UNCHANGED <<isAIAnalyzing, aiPending>>

\* applyPreset(type), lines 74-85
ApplyPreset(type) ==
  /\ Live
  /\ Commit(image, IF type = "reset" THEN INITIAL_SETTINGS
                   ELSE Spread(INITIAL_SETTINGS, PresetSettings(type)))
  /\ UNCHANGED <<isAIAnalyzing, aiPending>>

\* analyzeWithAI up to its await (lines 87-97): the canvas is read by
\* toDataURL (line 95) and sent; the button is disabled without an image and
\* while isAIAnalyzing
AnalyzeStart ==
  /\ Live
  /\ image # NoImage
  /\ ~isAIAnalyzing
  /\ isAIAnalyzing' = TRUE
  /\ aiPending' = aiPending + 1
  /\ events' = events + 1
  /\ capture' = [by |-> "ai", img |-> image, bm |-> canvas.bm]
  /\ UNCHANGED <<image, settings, canvas, crashed>>

\* analyzeWithAI after its await (lines 129-137): the response arrived
AnalyzeResponse(resp) ==
  /\ ~crashed
  /\ aiPending > 0
  /\ aiPending' = aiPending - 1
  /\ isAIAnalyzing' = FALSE
  /\ IF ParseOk(resp)
       THEN /\ image' = image
            /\ settings' = resp.doc
            /\ canvas' = Rendered(image, resp.doc)
            /\ crashed' = (canvas'.err # "none")
       ELSE UNCHANGED <<image, settings, canvas, crashed>>
  /\ UNCHANGED events

\* mutant of AnalyzeFailed: the catch without the finally block
AnalyzeFailedFlagLeft ==
  /\ ~crashed
  /\ aiPending > 0
  /\ aiPending' = aiPending - 1
  /\ UNCHANGED <<image, settings, isAIAnalyzing, canvas, crashed, events>>

\* analyzeWithAI after its await: generateContent rejected (lines 132-137)
AnalyzeFailed ==
  /\ ~crashed
  /\ aiPending > 0
  /\ aiPending' = aiPending - 1
  /\ isAIAnalyzing' = FALSE
  /\ UNCHANGED <<image, settings, canvas, crashed, events>>

RenderIdle ==
  /\ pc = "done"
  /\ src = NoImage
  /\ cfg = INITIAL_SETTINGS
  /\ ctx = NewContext(0, 0)
  /\ ran = <<>>

\* the component as mounted: no image, default settings.  The canvas
\* element's default bitmap is not modelled (nothing reads it before the
\* first render: download and the AI button need an image).
Init ==
  /\ RenderIdle
  /\ kernel \in Kernels
  /\ AppIdle

Next ==
  \/ \E img \in AppImages : ImageLoaded(img) /\ UNCHANGED <<renderVars, capture>>
  \/ \E in \in SliderInputs : SliderChange(in[1], in[2]) /\ UNCHANGED <<renderVars, capture>>
  \/ \E type \in PresetInputs \cup {"reset"} :
        ApplyPreset(type) /\ UNCHANGED <<renderVars, capture>>
  \/ AnalyzeStart /\ UNCHANGED renderVars
  \/ \E resp \in AIResponses : AnalyzeResponse(resp) /\ UNCHANGED <<renderVars, capture>>
  \/ AnalyzeFailed /\ UNCHANGED <<renderVars, capture>>

Spec == Init /\ [][Next]_vars

\* the awaited generateContent promise settles: it resolves with a response
\* or rejects, and the rest of analyzeWithAI then runs
AnalyzeSettles == AnalyzeFailed \/ (\E resp \in AIResponses : AnalyzeResponse(resp))

SpecSettling == Spec /\ WF_vars(AnalyzeSettles /\ UNCHANGED <<renderVars, capture>>)

\* ================================================================ claims

Toned == pc \in {"clarity", "sharpness", "vignette", "done"}

Pixels(bm) == {bm.px[i] : i \in 1..(bm.w * bm.h)}

\* ---- C1 (SpecTone)
\* C1: with all twelve settings 0, every sample (R, G, B, A) of every pixel
\* equals the source sample after the draw and after every later stage, the
\* values the loop writes are the source values themselves, and clarity,
\* sharpness and vignette do not run.
C1_Identity ==
  (cfg = INITIAL_SETTINGS /\ pc # "draw") =>
     /\ pc # "thrown"
     /\ ctx.bm = src
     /\ \A i \in 1..(src.w * src.h) : \A k \in 1..3 :
          ToneValues(src.px[i], cfg)[k] = Fx(src.px[i][k])
     /\ (pc = "done" => ran = <<"draw", "tone">>)

C1_Witness ==
  /\ cfg = INITIAL_SETTINGS
  /\ pc = "done"
  /\ src = Ramp(MaxDim, MaxDim)
  /\ ctx.bm = src

\* ---- C2 (SpecExtreme)
\* C2 as amended: with every field at an end of its domain, every sample of
\* the buffer is an integer in 0..255 after every stage (the array the loop
\* writes to clamps what it stores).
C2_SamplesInRange ==
  \A p \in Pixels(ctx.bm) : \A k \in 1..4 : p[k] \in 0..255

\* C2 as claimed: with every field at an end of its domain, every sample of
\* the buffer is in [0, 255], and the values r, g, b that the loop writes back
\* after the saturation and vibrance step are in [0, 255].
C2_ClampClosure ==
  /\ C2_SamplesInRange
  /\ Toned => \A i \in 1..(src.w * src.h) : \A k \in 1..3 :
                /\ ToneValues(src.px[i], cfg)[k] >= 0
                /\ ToneValues(src.px[i], cfg)[k] <= Fx(255)

C2_Witness ==
  /\ pc = "done"
  /\ \E k \in 1..3 : ToneValues(src.px[1], cfg)[k] > Fx(255)
  /\ \E k \in 1..3 : ToneValues(src.px[1], cfg)[k] < 0
  /\ C2_SamplesInRange

\* ---- C3 (SpecRange)
Returned == pc \in {"done", "thrown"}

AllPresent(s) == \A f \in Fields : s[f] # NaN

\* C3: a render whose settings hold a number outside a field's domain
\* completes without an error and leaves the buffer that the same render
\* leaves with that field at the nearest bound of its domain.
C3_OutOfRangeClamped ==
  (Returned /\ AllPresent(cfg) /\ src.w * src.h > 0) =>
     /\ pc = "done"
     /\ ctx.bm = RenderEffect(src, ClampSettings(cfg), kernel).bm

\* ---- C4 (SpecRange)
InvalidInput(img, s) == img.w = 0 \/ img.h = 0 \/ ~AllPresent(s)

\* C4: a render of an image with no area, or with a settings field that is
\* missing or not a number, ends in the error InvalidInput and leaves the
\* canvas buffer as it was before the call.
C4_InvalidInputRejected ==
  (Returned /\ InvalidInput(src, cfg)) =>
     /\ pc = "thrown"
     /\ ctx.err = "InvalidInput"
     /\ ctx.bm = ClearBitmap(src.w, src.h)

\* ---- C5 (Spec)
\* C5: whenever an image is shown, the settings the render effect passes to
\* processImage hold a number in each of the twelve fields, whatever the
\* sequence of loads, presets, resets, slider moves and AI responses.
C5_SettingsComplete ==
  image # NoImage => AllPresent(settings)

\* ---- C6 (SpecPost)
StageIndex(st) == CHOOSE i \in 1..Len(Stages) : Stages[i] = st

\* C6: the stages act in the order draw, tone, clarity, sharpness, vignette,
\* none twice; draw and tone always act; the context a stage starts from is
\* the one the stages before it left; the stages that have acted at the end
\* are exactly those the settings switch on.
C6_StageOrder ==
  /\ \A i, j \in 1..Len(ran) : i < j => StageIndex(ran[i]) < StageIndex(ran[j])
  /\ pc # "draw" => (Len(ran) >= 1 /\ ran[1] = "draw")
  /\ Toned => (Len(ran) >= 2 /\ ran[2] = "tone")
  /\ pc # "thrown"
  /\ pc # "done" =>
       ctx = RunStages(SubSeq(Stages, 1, StageIndex(pc) - 1),
                       NewContext(src.w, src.h), src, cfg, kernel)
  /\ pc = "done" =>
       /\ ran = SelectSeq(Stages, LAMBDA st : StageActs(st, cfg))
       /\ ctx = RenderEffect(src, cfg, kernel)

C6_Witness ==
  /\ pc = "done"
  /\ ran = Stages
  /\ src = Ramp(MaxDim, MaxDim)
  /\ ctx.bm # src

\* ---- C7 (SpecPost)
OrderExample ==
  [INITIAL_SETTINGS EXCEPT !.clarity = -50, !.sharpness = 50, !.vignette = 40]

ReverseOrder == <<"draw", "tone", "vignette", "sharpness", "clarity">>

Reversed(img, s, k) == RunStages(ReverseOrder, NewContext(img.w, img.h), img, s, k)

\* C7: for the settings clarity -50, sharpness 50, vignette 40 and the ramp
\* image, the buffer after clarity, sharpness, vignette differs from the buffer
\* the same three effects leave when applied in the reverse order.
C7_OrderSensitive ==
  (pc = "done" /\ cfg = OrderExample /\ src = Ramp(2, 2)) =>
     ctx.bm # Reversed(src, cfg, kernel).bm

C7_Witness ==
  /\ pc = "done"
  /\ cfg = OrderExample
  /\ src = Ramp(2, 2)
  /\ ran = Stages
  /\ Reversed(src, cfg, kernel).err = "none"
  /\ ctx.bm # Reversed(src, cfg, kernel).bm

\* ---- C8 (SpecTone)
ExposureGrid == {e \in -100..100 : ExposureOk(e)}

\* C8: with every other field 0, each of R, G, B stored for exposure e2 is at
\* least the value stored for any exposure e1 <= e2 on the same pixel.
C8_MonotonicExposure ==
  (Toned /\ cfg = OnlyField("exposure", cfg.exposure)) =>
     \A i \in 1..(src.w * src.h) : \A e1 \in ExposureGrid :
        e1 <= cfg.exposure =>
          \A k \in 1..3 :
             TonePixel(src.px[i], OnlyField("exposure", e1))[k] <= ctx.bm.px[i][k]

C8_Witness ==
  /\ pc = "done"
  /\ cfg = OnlyField("exposure", 100)
  /\ src.px[1] = <<200, 100, 50, 255>>
  /\ ctx.bm.px[1] = <<255, 200, 100, 255>>
  /\ TonePixel(src.px[1], OnlyField("exposure", 50))[3] < 100

\* ---- C9 (SpecTone)
GrayCase ==
  /\ src.w * src.h = 1
  /\ src.px[1][1] = src.px[1][2]
  /\ src.px[1][2] = src.px[1][3]
  /\ \E v \in FieldSteps : cfg \in {OnlyField("saturation", v), OnlyField("vibrance", v)}

\* C9 as amended: for a pixel with R = G = B and every other field 0, any
\* saturation alone or vibrance alone in -100..100 leaves the stored pixel
\* unchanged.
C9_GrayStoredUnchanged ==
  (GrayCase /\ pc # "draw") =>
     /\ pc # "thrown"
     /\ ctx.bm = src
     /\ \A v \in -100..100 :
          /\ TonePixel(src.px[1], OnlyField("saturation", v)) = src.px[1]
          /\ TonePixel(src.px[1], OnlyField("vibrance", v)) = src.px[1]

\* C9 as claimed: the stored pixel is unchanged and the difference between
\* each channel and the computed gray value is 0.
C9_GrayDifferenceZero ==
  (GrayCase /\ Toned) =>
     /\ ctx.bm = src
     /\ \A k \in 1..3 :
          Fx(src.px[1][k]) -
            Gray(Fx(src.px[1][1]), Fx(src.px[1][2]), Fx(src.px[1][3])) = 0

C9_Witness ==
  /\ GrayCase
  /\ pc = "done"
  /\ cfg = OnlyField("saturation", 100)
  /\ src.px[1] = <<255, 255, 255, 255>>
  /\ ToneValues(src.px[1], cfg)[1] # Fx(255)
  /\ ctx.bm = src

\* ---- C10 (SpecTone)
\* C10: with every other field 0, a channel that is 128 is stored as 128 for
\* every contrast in -100..100, so a (128, 128, 128) pixel is stored unchanged.
C10_ContrastPivot ==
  (Toned /\ \E c \in FieldSteps : cfg = OnlyField("contrast", c)) =>
     /\ \A i \in 1..(src.w * src.h) : \A k \in 1..3 :
          src.px[i][k] = 128 => ctx.bm.px[i][k] = 128
     /\ \A c \in -100..100 :
          TonePixel(<<128, 128, 128, 255>>, OnlyField("contrast", c))
            = <<128, 128, 128, 255>>

C10_Witness ==
  /\ pc = "done"
  /\ cfg = OnlyField("contrast", 100)
  /\ src.px[1] = <<128, 128, 0, 255>>
  /\ ctx.bm.px[1] = <<128, 128, 0, 255>>

\* ---- C11 (SpecTone)
\* C11: with exposure 100 and every other field 0, each of R, G, B is exactly
\* twice the source value before the clamp, is stored as min(255, 2v) for
\* every channel value v, and stays so through the later stages; the pixel
\* (100, 100, 100) is stored as (200, 200, 200).
C11_ExposureDoubles ==
  (cfg = OnlyField("exposure", 100) /\ Toned) =>
     /\ \A i \in 1..(src.w * src.h) : \A k \in 1..3 :
          /\ ExposureStep(<<Fx(src.px[i][1]), Fx(src.px[i][2]), Fx(src.px[i][3])>>,
                          cfg)[k] = 2 * Fx(src.px[i][k])
          /\ ctx.bm.px[i][k] = Min2(255, 2 * src.px[i][k])
     /\ \A v \in 0..255 : \A k \in 1..3 :
          TonePixel(<<v, v, v, 255>>, cfg)[k] = Min2(255, 2 * v)
     /\ (src.px[1] = <<100, 100, 100, 255>> => ctx.bm.px[1] = <<200, 200, 200, 255>>)

C11_Witness ==
  /\ pc = "done"
  /\ cfg = OnlyField("exposure", 100)
  /\ src.px[1] = <<100, 100, 100, 255>>
  /\ ctx.bm.px[1] = <<200, 200, 200, 255>>
  /\ ran = <<"draw", "tone">>

\* ---- C12 (SpecVignette)
\* four times the squared distance of pixel i's centre from the image centre
Dist2(w, h, i) ==
  LET x == (i - 1) % w
      y == (i - 1) \div w
  IN  (2 * x + 1 - w) * (2 * x + 1 - w) + (2 * y + 1 - h) * (2 * y + 1 - h)

CornerPixels(w, h) == {1, w, w * (h - 1) + 1, w * h}

\* the pixels nearest the image centre
CentrePixels(w, h) ==
  {i \in 1..(w * h) : \A j \in 1..(w * h) : Dist2(w, h, i) <= Dist2(w, h, j)}

\* the strength of the vignette layer at pixel i: the gradient's end alpha
\* |vignette| / 100 * 0.8 times the pixel's position along the gradient
VignetteStrength(w, h, i, v) == Abs(v) * 80 * GradientT(w, h, i)

\* the corners lie farther from the centre than the pixels nearest it
HasOuterCorners(w, h) == w >= 3 \/ h >= 3

\* C12 as amended: for a nonzero vignette the layer's strength depends only
\* on the pixel's distance from the image centre and does not decrease with
\* it; it is zero at every pixel within width/3 of the centre; at a corner it
\* is at least the strength at the pixels nearest the centre, and strictly
\* greater when the image has a side of 3 or more and is not 3 or less wide
\* with height 1.  On a one-colour image the stored pixels follow: a pixel of
\* greater strength is no lighter (vignette > 0) or no darker (vignette < 0).
C12_VignetteByDistance ==
  (pc = "done" /\ cfg.vignette # 0) =>
     LET w == src.w
         h == src.h
         S(i) == VignetteStrength(w, h, i, cfg.vignette)
     IN  /\ \A i, j \in 1..(w * h) :
              /\ Dist2(w, h, i) <= Dist2(w, h, j) => S(i) <= S(j)
              /\ (S(i) <= S(j) /\ cfg.vignette > 0) =>
                    \A k \in 1..3 : ctx.bm.px[j][k] <= ctx.bm.px[i][k]
              /\ (S(i) <= S(j) /\ cfg.vignette < 0) =>
                    \A k \in 1..3 : ctx.bm.px[j][k] >= ctx.bm.px[i][k]
         /\ \A i \in 1..(w * h) : 9 * Dist2(w, h, i) <= 4 * w * w => S(i) = 0
         /\ \A c \in CornerPixels(w, h) : \A m \in CentrePixels(w, h) :
              /\ S(c) >= S(m)
              /\ (HasOuterCorners(w, h) /\ (h >= 2 \/ w >= 4)) => S(c) > S(m)

\* C12 as claimed, for the images whose corners are not themselves the
\* pixels nearest the centre: the strength is equal at equal distance, zero
\* at the pixels nearest the centre and strictly greater at each corner.
C12_CornerAboveCentre ==
  (pc = "done" /\ cfg.vignette # 0 /\ HasOuterCorners(src.w, src.h)) =>
     LET w == src.w
         h == src.h
         S(i) == VignetteStrength(w, h, i, cfg.vignette)
     IN  /\ \A i, j \in 1..(w * h) : Dist2(w, h, i) = Dist2(w, h, j) => S(i) = S(j)
         /\ \A m \in CentrePixels(w, h) : S(m) = 0
         /\ \A c \in CornerPixels(w, h) : \A m \in CentrePixels(w, h) : S(c) > S(m)

C12_Witness ==
  /\ pc = "done"
  /\ cfg.vignette = 100
  /\ src.w = 3
  /\ src.h = 3
  /\ ran = <<"draw", "tone", "vignette">>
  /\ ctx.bm.px[5] = src.px[5]
  /\ ctx.bm.px[1][1] < ctx.bm.px[5][1]
  /\ ctx.bm.px[1] = ctx.bm.px[9]

\* ---- C13 (Spec)
\* C13: every step that leaves an image shown leaves a canvas whose bitmap
\* has exactly that image's width and height and one pixel per position,
\* whatever image, of whatever size, was shown before the step.
C13_SurfaceMatchesImage ==
  [][image' # NoImage =>
       /\ canvas'.bm.w = image'.w
       /\ canvas'.bm.h = image'.h
       /\ DOMAIN canvas'.bm.px = 1..(image'.w * image'.h)]_vars

C13_Witness ==
  /\ image = Ramp(2, 1)
  /\ events >= 2
  /\ settings = INITIAL_SETTINGS
  /\ canvas.bm = Ramp(2, 1)

\* ---- C14 (Spec)
\* the settings a preset stands for: its listed fields, 0 elsewhere
PresetResult(type) ==
  [f \in Fields |-> IF type # "reset" /\ f \in DOMAIN PresetSettings(type)
                    THEN PresetSettings(type)[f] ELSE 0]

\* C14: a step that applies a preset leaves the preset's listed fields and 0
\* in every other field, whatever the settings were before; applying the same
\* preset to the result changes nothing; reset leaves all twelve fields 0.
C14_PresetOverDefaults ==
  [][\A type \in PresetInputs \cup {"reset"} :
       ApplyPreset(type) =>
         /\ settings' = PresetResult(type)
         /\ \A f \in Fields :
              (type = "reset" \/ f \notin DOMAIN PresetSettings(type)) => settings'[f] = 0
         /\ (IF type = "reset" THEN INITIAL_SETTINGS
             ELSE Spread(INITIAL_SETTINGS, PresetSettings(type))) = settings'
         /\ \A other \in PresetNames :
              Spread(INITIAL_SETTINGS, PresetSettings(other)) = PresetResult(other)]_vars

C14_Witness ==
  /\ settings = PresetResult("cinematic")
  /\ settings # INITIAL_SETTINGS
  /\ image # NoImage
  /\ events >= 3
  /\ ~crashed

\* ---- C15 (Spec)
\* C15: whenever an image is shown, the canvas is what a render of the shown
\* image with the current settings leaves on a fresh surface, whatever was
\* rendered before, also for an image with partly transparent pixels.
C15_RenderIsFunction ==
  image # NoImage => canvas = RenderEffect(image, settings, kernel)

C15_Witness ==
  /\ image = Uniform(1, 1, <<100, 100, 100, 128>>)
  /\ settings = [INITIAL_SETTINGS EXCEPT !.exposure = 100]
  /\ events >= 3
  /\ canvas.bm.px[1] = <<200, 200, 200, 128>>

\* ---- C16 (SpecPost)
\* the context as the tone pass leaves it
AfterTone == RunStages(<<"draw", "tone">>, NewContext(src.w, src.h), src, cfg, kernel)

\* C16: right after the clarity stage with clarity < 0, each pixel is the
\* ORIGINAL image's pixel drawn source-over, at opacity 0.5 + clarity/100 *
\* 0.4, on the tone-adjusted surface blurred with radius |clarity/100| * 2,
\* and the drawing state is back to its defaults; for every clarity in
\* -100..-1 the opacity is at least 0.1, below 0.5, and smaller for a
\* smaller clarity.
C16_NegativeClarity ==
  (pc = "sharpness" /\ cfg.clarity < 0) =>
     LET blurred == DrawCanvas(SetFilter(AfterTone, 2 * Abs(cfg.clarity)), kernel).bm
     IN  /\ \A i \in 1..(src.w * src.h) :
              ctx.bm.px[i] = CompositePixel(blurred.px[i], src.px[i], "source-over",
                                            5000 + 40 * cfg.clarity)
         /\ ctx.alpha = OpScale
         /\ ctx.gco = "source-over"
         /\ ctx.filter = 0
         /\ \A c \in -100..-1 :
              /\ ClarityRadius(c) = 2 * Abs(c)
              /\ ClarityOpacity(c) >= 1000
              /\ ClarityOpacity(c) < 5000
              /\ c > -100 => ClarityOpacity(c - 1) < ClarityOpacity(c)
              /\ SetGlobalAlpha(AfterTone, ClarityOpacity(c)).alpha = ClarityOpacity(c)

C16_Witness ==
  /\ pc = "sharpness"
  /\ cfg.clarity = -100
  /\ cfg.exposure = 100
  /\ kernel = "binomial3"
  /\ src = Ramp(2, 2)
  /\ ran = <<"draw", "tone", "clarity">>
  /\ ctx.bm # AfterTone.bm
  /\ ctx.bm # src

\* ---- C17 (SpecExtreme)
\* r, g, b of pixel p after the contrast step, before the clamp
BeforeClamp(p, s) ==
  ContrastStep(ToneCurveStep(
    TintStep(TempStep(ExposureStep(<<Fx(p[1]), Fx(p[2]), Fx(p[3])>>, s), s), s), s), s)

\* for every contrast in -100..100 the factor's denominator is not 0 and the
\* factor is positive: the step maps finite values to finite values and keeps
\* their order
ContrastFactorDefined ==
  \A c \in -100..100 :
     /\ 255 * (259 - c) # 0
     /\ 259 * (c + 255) > 0
     /\ IsNum(ContrastApply(Fx(255), c))
     /\ IsNum(ContrastApply(0, c))
     /\ ContrastApply(Fx(255), c) > ContrastApply(0, c)

\* the fill alpha of clarity > 0, the opacity of clarity < 0, the opacity of
\* sharpness and the gradient's end alpha, over the fields' domains
OpacitiesInRange ==
  /\ \A c \in 1..100 : c * 40 \in 0..OpScale
  /\ \A c \in -100..-1 : ClarityOpacity(c) \in 0..OpScale
  /\ \A sh \in 1..100 : sh * 25 \in 0..OpScale
  /\ \A v \in -100..100 : Abs(v) * 80 \in 0..OpScale

\* w/3 < max(w, h)/1.2, in sixths
RadiiOrdered == \A w, h \in 1..(MaxDim + 1) : 2 * w < 5 * Max2(w, h)

\* C17: with every field at an end of its domain no stage throws, and every
\* channel value before the clamp and at the write-back (checked in the state
\* the tone pass leaves) is a finite number; for every contrast in -100..100
\* the factor's denominator is not 0 and the factor is positive; every
\* opacity and gradient alpha the stages set is in [0, 1]; the gradient's
\* inner radius is below its outer radius; the render ends with the drawing
\* state at its defaults.
C17_PipelineTotal ==
  /\ pc # "thrown"
  /\ ctx.err = "none"
  /\ pc = "clarity" =>
       \A i \in 1..(src.w * src.h) :
          LET before  == BeforeClamp(src.px[i], cfg)
              written == ToneValues(src.px[i], cfg)
          IN  \A k \in 1..3 : IsNum(before[k]) /\ IsNum(written[k])
  /\ ContrastFactorDefined
  /\ OpacitiesInRange
  /\ RadiiOrdered
  /\ pc = "done" =>
       /\ ctx.alpha = OpScale
       /\ ctx.gco = "source-over"
       /\ ctx.filter = 0

C17_Witness ==
  /\ pc = "done"
  /\ cfg = [f \in Fields |-> IF f = "clarity" THEN -100 ELSE 100]
  /\ ran = Stages
  /\ ctx.err = "none"
  /\ src.px[1] = <<10, 128, 250, 255>>

\* ---- C18 (SpecTone)
\* the context as the draw leaves it
AfterDraw == StageDraw(NewContext(src.w, src.h), src)

\* C18: after the write-back, and through the later stages that do not act,
\* each pixel's alpha is the alpha it had after the source was drawn; the
\* loop keeps the alpha of a pixel for every settings value, also one with a
\* field missing or outside its domain.
C18_AlphaUntouched ==
  Toned =>
     /\ \A i \in 1..(src.w * src.h) : ctx.bm.px[i][4] = AfterDraw.bm.px[i][4]
     /\ \A s \in MissingFieldSettings \cup OutOfRangeSettings \cup {cfg} :
          \A i \in 1..(src.w * src.h) :
             TonePixel(AfterDraw.bm.px[i], s)[4] = AfterDraw.bm.px[i][4]

C18_Witness ==
  /\ pc = "clarity"
  /\ cfg = OnlyField("contrast", 100)
  /\ src.px[1] = <<128, 64, 200, 1>>
  /\ ctx.bm.px[1][4] = 1
  /\ ctx.bm.px[1] # src.px[1]

\* ---- C19 (SpecCurve)
\* r, g, b of pixel p after exposure and white balance
Balanced(p, s) == TintStep(TempStep(ExposureStep(<<Fx(p[1]), Fx(p[2]), Fx(p[3])>>, s), s), s)

\* lum of pixel p: from the values after exposure and white balance
LumOf(p, s) == Lum(Balanced(p, s)[1], Balanced(p, s)[2], Balanced(p, s)[3])

\* C19: with shadows, highlights and whites set together (and exposure), each
\* stored channel is the clamped sum of the channel after exposure and white
\* balance, the shadows lift, the highlights term and the whites lift, all
\* three taken from the one luminance of those unclamped values; whites adds
\* only when that luminance is strictly above 200, so a pixel whose luminance
\* is exactly 200 is stored as it is with whites 0.
C19_OneLuminance ==
  Toned =>
    \A i \in 1..(src.w * src.h) :
      LET p   == src.px[i]
          lum == LumOf(p, cfg)
          sh  == IF cfg.shadows # 0
                   THEN MulDiv(Fx(255) - lum, cfg.shadows * 80, 255 * 100) ELSE 0
          hi  == IF cfg.highlights # 0
                   THEN MulDiv(lum, cfg.highlights * 80, 255 * 100) ELSE 0
          wh  == IF cfg.whites # 0 /\ lum > Fx(200) THEN Fx(cfg.whites) \div 2 ELSE 0
      IN  /\ \A k \in 1..3 :
               ctx.bm.px[i][k] = ToUint8Clamp(Clamp255(Balanced(p, cfg)[k] + sh + hi + wh))
          /\ lum = Fx(200) => ctx.bm.px[i] = TonePixel(p, [cfg EXCEPT !.whites = 0])

\* the shadows lift has taken the channels above 200, the luminance was
\* below it, and whites has not fired
C19_Witness ==
  /\ pc = "done"
  /\ src.px[1] = <<199, 199, 199, 255>>
  /\ cfg = [INITIAL_SETTINGS EXCEPT !.shadows = 100, !.whites = 100]
  /\ LumOf(src.px[1], cfg) < Fx(200)
  /\ ctx.bm.px[1][1] > 200
  /\ ctx.bm.px[1][1] < 255

\* ---- C20 (SpecExtreme)
\* r, g, b of pixel p after the clamp of lines 85-87
Clamped(p, s) == ClampStep(BeforeClamp(p, s))

\* amt of pixel p: the protection amount the vibrance step uses
AmtOf(p, s) ==
  LET c == Clamped(p, s)
  IN  VibranceAmt(c[1], c[2], c[3])

AmtLevels == {0, 85, 128, 255}

\* over the pixels of the levels 0, 85, 128, 255 the amount is at least 0 and
\* at most that of (255, 0, 0), which is 2/3
AmtLargest ==
  \A r, g, b \in AmtLevels :
     /\ VibranceAmt(Fx(r), Fx(g), Fx(b)) >= 0
     /\ VibranceAmt(Fx(r), Fx(g), Fx(b)) <= VibranceAmt(Fx(255), 0, 0)
     /\ 3 * VibranceAmt(Fx(r), Fx(g), Fx(b)) <= 2 * Scale + 3

\* C20: for every pixel after the clamp (in the state the tone pass leaves),
\* the amount (|maxC - avgC| * 2 / 255) * 0.5 is at least 0 and below 1, so it
\* equals its min(1, ...) form and the factor 1 - amt is above 0 and at most
\* 1; no amount exceeds the 2/3 of the pixel (255, 0, 0).
C20_AmtBelowOne ==
  /\ AmtLargest
  /\ pc = "clarity" =>
       \A i \in 1..(src.w * src.h) :
          LET amt == AmtOf(src.px[i], cfg)
          IN  /\ amt >= 0
              /\ amt < Scale
              /\ amt = Min2(Scale, amt)
              /\ amt <= VibranceAmt(Fx(255), 0, 0)
              /\ Scale - amt > 0
              /\ Scale - amt <= Scale

C20_Witness ==
  /\ pc = "done"
  /\ cfg.vibrance = 100
  /\ 2 * AmtOf(src.px[1], cfg) > Scale
  /\ ctx.bm.px[1] # src.px[1]

\* ---- C21 (SpecColour)
\* saturation alone on the clamped colour of pixel p, stored
SaturationOfClamped(p, s) ==
  LET c    == Clamped(p, s)
      gray == Gray(c[1], c[2], c[3])
  IN  [k \in 1..3 |-> ToUint8Clamp(gray + MulDiv(c[k] - gray, 100 + s.saturation, 100))]

\* C21: with vibrance and saturation both nonzero, each stored channel is
\* gray + (v - gray) * (1 + saturation/100), where gray is computed once from
\* the clamped values and v is the channel as vibrance left it (with the
\* same gray); for the pixel (200, 100, 50) at vibrance 50, saturation 50
\* this is not what saturation gives on the clamped colour.
C21_SaturationAfterVibrance ==
  /\ Toned /\ cfg.vibrance # 0 /\ cfg.saturation # 0 =>
       \A i \in 1..(src.w * src.h) :
          LET c    == Clamped(src.px[i], cfg)
              gray == MulDiv(c[1], 2989, 10000) + MulDiv(c[2], 5870, 10000)
                        + MulDiv(c[3], 1140, 10000)
              amt  == AmtOf(src.px[i], cfg)
              v    == [k \in 1..3 |->
                         IF cfg.vibrance > 0
                           THEN c[k] + MulFx(MulDiv(c[k] - gray, cfg.vibrance, 100), Scale - amt)
                         ELSE c[k] + MulDiv(c[k] - gray, cfg.vibrance, 100)]
          IN  \A k \in 1..3 :
                 ctx.bm.px[i][k] =
                   ToUint8Clamp(gray + MulDiv(v[k] - gray, 100 + cfg.saturation, 100))
  /\ (/\ Toned
      /\ src.px[1] = <<200, 100, 50, 255>>
      /\ cfg = [INITIAL_SETTINGS EXCEPT !.vibrance = 50, !.saturation = 50])
       => \E k \in 1..3 : ctx.bm.px[1][k] # SaturationOfClamped(src.px[1], cfg)[k]

C21_Witness ==
  /\ pc = "done"
  /\ src.px[1] = <<200, 100, 50, 255>>
  /\ cfg = [INITIAL_SETTINGS EXCEPT !.vibrance = 50, !.saturation = 50]
  /\ \E k \in 1..3 : ctx.bm.px[1][k] # SaturationOfClamped(src.px[1], cfg)[k]
  /\ ctx.bm.px[1] # src.px[1]

\* ---- C22 (SpecPost)
\* the context after the clarity stage
AfterClarity ==
  RunStages(<<"draw", "tone", "clarity">>, NewContext(src.w, src.h), src, cfg, kernel)

\* C22: the step of the sharpness stage, for sharpness > 0, leaves each pixel
\* as the pixel composited onto itself with overlay at opacity sharpness/400,
\* which is at most 0.25, and the drawing state as it was; for sharpness <= 0,
\* negative values included, it leaves the surface as it was.
C22_SharpnessOnlyPositive ==
  [][pc = "sharpness" =>
       IF cfg.sharpness > 0
         THEN /\ cfg.sharpness * 25 <= OpScale \div 4
              /\ \A i \in 1..(src.w * src.h) :
                    ctx'.bm.px[i] =
                      CompositePixel(ctx.bm.px[i], ctx.bm.px[i], "overlay", cfg.sharpness * 25)
              /\ ctx'.gco = ctx.gco /\ ctx'.alpha = ctx.alpha /\ ctx'.filter = ctx.filter
       ELSE ctx' = ctx]_vars

C22_Witness ==
  /\ pc = "vignette"
  /\ cfg = OnlyField("sharpness", 100)
  /\ src = Uniform(1, 1, <<200, 100, 50, 255>>)
  /\ ctx.bm.px[1] = CompositePixel(<<200, 100, 50, 255>>, <<200, 100, 50, 255>>, "overlay", 2500)
  /\ ctx.bm # AfterClarity.bm

\* ---- C23 (SpecPost)
\* the context after the sharpness stage
AfterSharpness ==
  RunStages(<<"draw", "tone", "clarity", "sharpness">>, NewContext(src.w, src.h), src, cfg,
            kernel)

\* C23: the step of the vignette stage, for vignette > 0, leaves no R, G or B
\* sample of any pixel greater than it was, and for vignette < 0 leaves none
\* smaller than it was; on an opaque pixel the alpha stays 255.
C23_VignetteDirection ==
  [][pc = "vignette" =>
       \A i \in 1..(src.w * src.h) :
          /\ cfg.vignette > 0 => \A k \in 1..3 : ctx'.bm.px[i][k] <= ctx.bm.px[i][k]
          /\ cfg.vignette < 0 => \A k \in 1..3 : ctx'.bm.px[i][k] >= ctx.bm.px[i][k]
          /\ ctx.bm.px[i][4] = 255 => ctx'.bm.px[i][4] = 255]_vars

\* a darkening and a lightening vignette have each changed a pixel
C23_Witness ==
  /\ pc = "done"
  /\ src = Ramp(2, 2)
  /\ cfg.vignette \in {-60, 100}
  /\ cfg.clarity = 50
  /\ \E i \in 1..4 : \E k \in 1..3 :
        IF cfg.vignette > 0 THEN ctx.bm.px[i][k] < AfterSharpness.bm.px[i][k]
        ELSE ctx.bm.px[i][k] > AfterSharpness.bm.px[i][k]

\* ---- C24 (SpecExport)
\* C24: every step that reads the canvas (the download's export, the AI
\* request's capture) is taken with the render returned, and reads the
\* complete result of the render effect for the image and the settings of
\* the latest render; no read and no later render starts between a render's
\* first stage and the end of its vignette stage.
C24_NoHalfRenderedRead ==
  [][/\ (events' = events + 1 /\ pc' = pc /\ ctx' = ctx) =>
          /\ pc = "done"
          /\ capture'.by \in {"download", "ai"}
          /\ capture'.bm = RenderEffect(src, cfg, kernel).bm
     /\ (events' = events + 1 /\ pc' = "draw") => pc = "done"]_vars

\* a capture and then a download, of a render that all three effects acted in
C24_Witness ==
  /\ pc = "done"
  /\ capture.by = "download"
  /\ isAIAnalyzing
  /\ events >= 3
  /\ ran = <<"draw", "tone", "clarity", "sharpness", "vignette">>
  /\ capture.bm = ctx.bm
  /\ capture.bm # AfterSharpness.bm

\* ---- C25 (SpecPost)
\* the drawing state a new context has
DefaultDrawingState(c) == c.gco = "source-over" /\ c.alpha = OpScale /\ c.filter = 0

\* C25: for every combination of clarity (negative, 0, positive), sharpness
\* and vignette (negative, 0, positive), each stage starts with compositing
\* mode 'source-over', global alpha 1.0 and filter 'none', and processImage
\* returns with them so.
C25_DrawingStateRestored ==
  /\ pc \in {"draw", "tone", "clarity", "sharpness", "vignette"} => DefaultDrawingState(ctx)
  /\ pc = "done" => DefaultDrawingState(ctx)
  /\ pc # "thrown"

C25_Witness ==
  /\ pc = "done"
  /\ cfg.clarity < 0
  /\ cfg.sharpness > 0
  /\ cfg.vignette < 0
  /\ ran = Stages
  /\ DefaultDrawingState(ctx)
  /\ ctx.bm # AfterTone.bm

\* ---- C26 (Spec)
\* C26: a step in which the response of an AI request arrives, while the
\* image shown is another than the one the request captured, leaves the
\* settings as they are.
C26_ResponseForOtherImageDropped ==
  [][(/\ aiPending' = aiPending - 1
      /\ capture.by = "ai"
      /\ capture.img # image) => settings' = settings]_vars

\* ---- C27 (SpecSettling)
\* C27: given that every generateContent promise settles, the analysing flag,
\* once set, is cleared later, by a response that parses, by one that does
\* not and by a rejection alike; at most one request is in flight, and one is
\* in flight exactly while the flag is set, when the AI action is disabled;
\* a rejection or a response that does not parse leaves the settings (and
\* the image and the canvas) as they are.
C27_AnalysisSettles ==
  /\ isAIAnalyzing ~> ~isAIAnalyzing
  /\ [](aiPending <= 1 /\ (isAIAnalyzing <=> aiPending = 1))
  /\ [][isAIAnalyzing => ~AnalyzeStart]_vars
  /\ [][aiPending' < aiPending => ~isAIAnalyzing']_vars
  /\ [][AnalyzeFailed => settings' = settings /\ image' = image /\ canvas' = canvas]_vars
  /\ [][\A resp \in AIResponses :
          (~ParseOk(resp) /\ AnalyzeResponse(resp)) =>
             settings' = settings /\ image' = image /\ canvas' = canvas]_vars

\* after a load and one analysis: the flag is cleared and the settings are
\* the all-zero ones, which no parsed response leaves
C27_Witness ==
  /\ events = 2
  /\ capture.by = "ai"
  /\ ~isAIAnalyzing
  /\ aiPending = 0
  /\ settings = INITIAL_SETTINGS

\* ---- C28 (SpecCurve)
\* C28: with shadows > 0, each stored R, G, B of each pixel is at least what
\* is stored for the same pixel with shadows 0 and the other settings as they
\* are, also where the exposure has taken the luminance above 255.
C28_PositiveShadowsNeverDarken ==
  (Toned /\ cfg.shadows > 0) =>
     \A i \in 1..(src.w * src.h) : \A k \in 1..3 :
        ctx.bm.px[i][k] >= TonePixel(src.px[i], [cfg EXCEPT !.shadows = 0])[k]

\* ---- C29 (SpecPost)
\* the channel value v of an opaque gray pixel after the clarity stage at
\* clarity = 100
ClarityChannel(v) ==
  StageClarity(StageDraw(NewContext(1, 1), Uniform(1, 1, <<v, v, v, 255>>)),
               Uniform(1, 1, <<v, v, v, 255>>), OnlyField("clarity", 100), "none").bm.px[1][1]

\* some channel value 0..255 leaves the clarity stage more than 1 away from
\* what it was
ClarityVisible == \E v \in 0..255 : Abs(ClarityChannel(v) - v) > 1

\* C29: a render with clarity = 100 and every other setting 0 has gone through
\* a clarity stage that takes some channel value more than 1 away from its
\* input.
C29_PositiveClarityVisible ==
  (pc = "sharpness" /\ cfg = OnlyField("clarity", 100)) => ClarityVisible

\* ---- C30 (Spec)
\* C30: a step that completes an image load leaves the new image installed
\* together with all-zero settings, whatever the settings were before, and
\* the render of that step leaves the image's own pixels on the canvas.
C30_LoadResetsSettings ==
  [][\A img \in AppImages :
       ImageLoaded(img) =>
         /\ image' = img
         /\ settings' = INITIAL_SETTINGS
         /\ \A f \in Fields : settings'[f] = 0
         /\ canvas'.bm = img
         /\ canvas'.err = "none"]_vars

\* an image loaded as the fourth event, after an edit of another image and
\* the AI capture of that edit
C30_Witness ==
  /\ events = 4
  /\ capture.by = "ai"
  /\ capture.bm # capture.img
  /\ image # capture.img
  /\ image = Uniform(1, 1, <<100, 100, 100, 128>>)
  /\ settings = INITIAL_SETTINGS
  /\ canvas.bm = image

====
